---------------------------- MODULE Spec2Model ----------------------------
(***************************************************************************)
(* Model of watch.py: a supervisor that probes GPUs with nvidia-smi,       *)
(* launches one dummy workload process per free managed GPU, and tears     *)
(* every workload down from shutdown_all (SIGINT, SIGTERM, atexit).        *)
(*                                                                         *)
(* One interpreter thread runs everything.  A Python signal handler runs   *)
(* between two bytecodes of whatever frame is executing, so shutdown_all   *)
(* may be entered on top of the main loop or on top of another             *)
(* shutdown_all activation.  shutdown_all leaves only by raising           *)
(* SystemExit (line 109), so an interrupted frame is never resumed: the    *)
(* model keeps the position of the running activation, `frame', and the    *)
(* position at which the main frame was interrupted, `pc'.                 *)
(***************************************************************************)
EXTENDS Integers, Sequences, FiniteSets, TLC

\* ---------------------------------------------------------------- bounds
MaxLen == 3          \* longest --gpus value, in characters
MaxDevices == 2      \* largest torch.cuda.device_count()
MaxCrashes == 1      \* workloads that die without being terminated
MaxSignals == 1      \* signals delivered to the supervisor

\* ------------------------------------------------------------- constants
None == <<"None">>   \* argparse default for --gpus (no string equals it)
NoProc == 0          \* "no handle"
NoStatus == -1       \* the process has not exited yet

\* shutdown_all is not running / has just been entered (line 101)
NoFrame == [pass |-> "none", i |-> 0]
NewFrame == [pass |-> "term", i |-> 1]

Chars == {"0", "1", "x", ",", "-"}
Digits == {"0", "1"}

VARIABLES
    argGpus,          \* args.gpus: None or a sequence of characters
    deviceCount,      \* torch.cuda.device_count()
    gpu_ids,          \* the managed list, in the order the loop walks it
    pc,               \* position of the main frame
    idx,              \* position of `for gid in gpu_ids' (1-based)
    usage,            \* snapshot returned by get_gpu_usage()
    toolFailed,       \* an nvidia-smi query failed in the last probe
    active_processes, \* registry: sequence of [gid, h] in insertion order
    procs,            \* every workload ever started: [dev, st, term]
    pending,          \* handle started at line 148 and not yet stored
    handlers,         \* signals whose handler is shutdown_all
    atexitRegistered, \* atexit.register(shutdown_all) has run
    mode,             \* "run", "finalize" (exit hooks), "exited"
    frame,            \* the running activation of shutdown_all, if any
    exitStatus,       \* process exit status
    teardownRuns,     \* activations of shutdown_all so far
    sigCount,         \* signals delivered so far
    crashes           \* workloads that died on their own so far

vars == <<argGpus, deviceCount, gpu_ids, pc, idx, usage, toolFailed,
          active_processes, procs, pending, handlers, atexitRegistered,
          mode, frame, exitStatus, teardownRuns, sigCount, crashes>>

\* ------------------------------------------------------ pure functions
\* str.split(","): the fields between separators; "" gives [""]
RECURSIVE SplitFrom(_, _, _)
SplitFrom(s, i, cur) ==
    IF i > Len(s) THEN <<cur>>
    ELSE IF s[i] = "," THEN <<cur>> \o SplitFrom(s, i + 1, <<>>)
    ELSE SplitFrom(s, i + 1, Append(cur, s[i]))

Split(s) == SplitFrom(s, 1, <<>>)

DigitVal(c) == IF c = "1" THEN 1 ELSE 0

AllDigits(t) == Len(t) > 0 /\ \A i \in 1..Len(t) : t[i] \in Digits

\* variant: accepts any run of digits and signs ("-", "1-")
IsIntLiteralLoose(t) ==
    Len(t) > 0 /\ \A i \in 1..Len(t) : t[i] \in Digits \cup {"-"}

\* int(x) raises ValueError unless x is an optional sign and digits
IsIntLiteral(t) ==
    IF Len(t) > 0 /\ t[1] = "-" THEN AllDigits(Tail(t)) ELSE AllDigits(t)

RECURSIVE DecVal(_)
DecVal(t) ==
    IF Len(t) = 0 THEN 0
    ELSE 10 * DecVal(SubSeq(t, 1, Len(t) - 1)) + DigitVal(t[Len(t)])

ParseInt(t) == IF t[1] = "-" THEN 0 - DecVal(Tail(t)) ELSE DecVal(t)

\* `if args.gpus:' - None and "" are both falsy
Truthy(a) == a # None /\ a # <<>>

ParseFails(a) == \E i \in 1..Len(Split(a)) : ~IsIntLiteral(Split(a)[i])

ParsedIds(a) == [i \in 1..Len(Split(a)) |-> ParseInt(Split(a)[i])]

\* list(range(torch.cuda.device_count()))
all_devices == [i \in 1..deviceCount |-> i - 1]

DeviceSet == {all_devices[i] : i \in 1..Len(all_devices)}

RECURSIVE StringsUpTo(_)
StringsUpTo(n) ==
    IF n = 0 THEN {<<>>}
    ELSE LET S == StringsUpTo(n - 1)
         IN  S \cup {Append(s, c) : s \in {t \in S : Len(t) = n - 1}, c \in Chars}

\* every --gpus value of at most MaxLen characters, and the flag left out
ArgValues == {None} \cup StringsUpTo(MaxLen)

\* --gpus values for the supervision runs: flag absent, one id, two ids in
\* and out of order, a repeated id, a negative id, an unparsable list
RunArgs ==
    { None, <<"0">>, <<"1">>, <<"0", ",", "1">>, <<"1", ",", "0">>,
      <<"0", ",", "0">>, <<"-", "1">>, <<"0", ",", "x">> }

\* lines 14-43: the state when the first statement after parse_args() runs
InitWith(values) ==
    /\ argGpus \in values
    /\ deviceCount \in 0..MaxDevices
    /\ gpu_ids = <<>>
    /\ pc = "parse"
    /\ idx = 1
    /\ usage = <<>>
    /\ toolFailed = FALSE
    /\ active_processes = <<>>
    /\ procs = <<>>
    /\ pending = NoProc
    /\ handlers = {}
    /\ atexitRegistered = FALSE
    /\ mode = "run"
    /\ frame = NoFrame
    /\ exitStatus = NoStatus
    /\ teardownRuns = 0
    /\ sigCount = 0
    /\ crashes = 0

Init == InitWith(RunArgs)

InitArgs == InitWith(ArgValues)

\* ------------------------------------------------------------ registry
\* variant: the lookup uses a key of another type and never finds the id
HasEntryStrKey(reg, gid) == FALSE

\* `gid in active_processes'
HasEntry(reg, gid) == \E i \in 1..Len(reg) : reg[i].gid = gid

HandleOf(reg, gid) ==
    LET i == CHOOSE j \in 1..Len(reg) : reg[j].gid = gid IN reg[i].h

\* variant: setdefault-like store that keeps an existing entry
StoreEntryKeepOld(reg, gid, h) ==
    IF HasEntry(reg, gid) THEN reg ELSE Append(reg, [gid |-> gid, h |-> h])

\* active_processes[gid] = proc: a dict keeps the position of an existing key
StoreEntry(reg, gid, h) ==
    IF HasEntry(reg, gid)
    THEN [i \in 1..Len(reg) |->
            IF reg[i].gid = gid THEN [gid |-> gid, h |-> h] ELSE reg[i]]
    ELSE Append(reg, [gid |-> gid, h |-> h])

\* Process.is_alive() polls the child, which reaps it when it has exited
IsAlive(ps, h) == ps[h].st = "alive"

Polled(ps, h) ==
    IF ps[h].st = "zombie" THEN [ps EXCEPT ![h].st = "reaped"] ELSE ps

\* Process.start() first polls every child started so far (multiprocessing's
\* _cleanup), which reaps those that have exited
Cleanup(ps) == [h \in 1..Len(ps) |-> Polled(ps, h)[h]]

\* variant: the registry is never consulted
LiveEntryNoCheck(reg, ps, gid) == FALSE

\* `gid in active_processes and active_processes[gid].is_alive()'
LiveEntry(reg, ps, gid) == HasEntry(reg, gid) /\ IsAlive(ps, HandleOf(reg, gid))

\* variant: the snapshot is looked up under the neighbouring key
InUseWrongKey(u, gid) == IF gid + 1 \in DOMAIN u THEN u[gid + 1] ELSE FALSE

\* `usage.get(gid, False)'
InUse(u, gid) == IF gid \in DOMAIN u THEN u[gid] ELSE FALSE

\* variant: no existence check
ExistsAny(gid) == TRUE

\* `gid not in all_devices'
Exists(gid) == gid \in DeviceSet

\* ---------------------------------------------------- interpreter exit
\* The main frame is gone (SystemExit or an uncaught exception reached the
\* top level) with the given status; the exit hooks run next.
MainUnwinds(status) ==
    /\ pc' = "gone"
    /\ idx' = 1
    /\ usage' = <<>>
    /\ pending' = NoProc
    /\ exitStatus' = status
    /\ IF atexitRegistered
       THEN /\ mode' = "finalize"
            /\ frame' = NewFrame
            /\ teardownRuns' = teardownRuns + 1
       ELSE /\ mode' = "exited"
            /\ frame' = NoFrame
            /\ UNCHANGED teardownRuns

\* variant: the loop goes on while shutdown_all runs
MainRunsResumes == mode = "run"

\* the main frame executes: it exists and no handler runs on top of it
MainRuns == mode = "run" /\ frame = NoFrame

\* ------------------------------------------------------------- startup
\* lines 31-40
ParseArgs ==
    /\ MainRuns /\ pc = "parse"
    /\ IF Truthy(argGpus)
       THEN IF ParseFails(argGpus)
            THEN /\ MainUnwinds(1)
                 /\ UNCHANGED gpu_ids
            ELSE /\ gpu_ids' = ParsedIds(argGpus)
                 /\ pc' = "main"
                 /\ UNCHANGED <<idx, usage, pending, mode, frame,
                                exitStatus, teardownRuns>>
       ELSE /\ gpu_ids' = all_devices
            /\ pc' = "main"
            /\ UNCHANGED <<idx, usage, pending, mode, frame, exitStatus,
                           teardownRuns>>
    /\ UNCHANGED <<argGpus, deviceCount, toolFailed, active_processes,
                   procs, handlers, atexitRegistered, sigCount, crashes>>

\* lines 116-123
MainEntry ==
    /\ MainRuns /\ pc = "main"
    /\ IF gpu_ids = <<>>
       THEN MainUnwinds(1)
       ELSE /\ pc' = "sigint"
            /\ UNCHANGED <<idx, usage, pending, mode, frame, exitStatus,
                           teardownRuns>>
    /\ UNCHANGED <<argGpus, deviceCount, gpu_ids, toolFailed,
                   active_processes, procs, handlers, atexitRegistered,
                   sigCount, crashes>>

\* line 126
InstallSigint ==
    /\ MainRuns /\ pc = "sigint"
    /\ handlers' = handlers \cup {"SIGINT"}
    /\ pc' = "sigterm"
    /\ UNCHANGED <<argGpus, deviceCount, gpu_ids, idx, usage, toolFailed,
                   active_processes, procs, pending, atexitRegistered, mode,
                   frame, exitStatus, teardownRuns, sigCount, crashes>>

\* line 127
InstallSigterm ==
    /\ MainRuns /\ pc = "sigterm"
    /\ handlers' = handlers \cup {"SIGTERM"}
    /\ pc' = "atexit"
    /\ UNCHANGED <<argGpus, deviceCount, gpu_ids, idx, usage, toolFailed,
                   active_processes, procs, pending, atexitRegistered, mode,
                   frame, exitStatus, teardownRuns, sigCount, crashes>>

\* line 128
RegisterAtexit ==
    /\ MainRuns /\ pc = "atexit"
    /\ atexitRegistered' = TRUE
    /\ pc' = "probe"
    /\ UNCHANGED <<argGpus, deviceCount, gpu_ids, idx, usage, toolFailed,
                   active_processes, procs, pending, handlers, mode,
                   frame, exitStatus, teardownRuns, sigCount, crashes>>

\* -------------------------------------------------------------- probe
\* nvidia-smi --query-gpu=uuid --id=gid: the identity string of one device
Uuid(gid) == <<"GPU", gid>>

\* lines 75-91: a device is in use when its uuid is in the compute-apps list
Snapshot(raw_output) ==
    [d \in DeviceSet |->
        IF raw_output # {} THEN Uuid(d) \in raw_output ELSE FALSE]

\* the queries of one probe: the compute-apps listing (line 70) and one
\* uuid lookup per enumerated device (line 78)
ToolQueries == {<<"list">>} \cup {<<"uuid", d>> : d \in DeviceSet}

\* line 132, nvidia-smi answers every query
Probe ==
    /\ MainRuns /\ pc = "probe"
    /\ \E raw_output \in SUBSET {Uuid(d) : d \in DeviceSet} :
          usage' = Snapshot(raw_output)
    /\ toolFailed' = FALSE
    /\ idx' = 1
    /\ pc' = "loop"
    /\ UNCHANGED <<argGpus, deviceCount, gpu_ids, active_processes, procs,
                   pending, handlers, atexitRegistered, mode, frame,
                   exitStatus, teardownRuns, sigCount, crashes>>

\* line 132 when nvidia-smi lists every running compute process, the
\* workloads of lines 48-58 included: the compute-apps listing holds at
\* least the uuid of every device that has a live workload
ProbeVisible ==
    /\ MainRuns /\ pc = "probe"
    /\ \E raw_output \in SUBSET {Uuid(d) : d \in DeviceSet} :
          /\ \A h \in 1..Len(procs) :
                IsAlive(procs, h) => Uuid(procs[h].dev) \in raw_output
          /\ usage' = Snapshot(raw_output)
    /\ toolFailed' = FALSE
    /\ idx' = 1
    /\ pc' = "loop"
    /\ UNCHANGED <<argGpus, deviceCount, gpu_ids, active_processes, procs,
                   pending, handlers, atexitRegistered, mode, frame,
                   exitStatus, teardownRuns, sigCount, crashes>>

\* line 132, nvidia-smi fails: check_output raises (lines 70, 78), nothing
\* catches it, and the traceback ends the main frame with status 1
ProbeFail ==
    /\ MainRuns /\ pc = "probe"
    /\ \E q \in ToolQueries : toolFailed' = TRUE
    /\ MainUnwinds(1)
    /\ UNCHANGED <<argGpus, deviceCount, gpu_ids, active_processes, procs,
                   handlers, atexitRegistered, sigCount, crashes>>

\* --------------------------------------------------------- decide / act
AtDevice == MainRuns /\ pc = "loop" /\ idx <= Len(gpu_ids)

\* variant: the id that is not enumerated is dropped from the managed list
SkipInvalidDrops ==
    /\ AtDevice
    /\ ~Exists(gpu_ids[idx])
    /\ gpu_ids' = [i \in 1..(Len(gpu_ids) - 1) |->
                      IF i < idx THEN gpu_ids[i] ELSE gpu_ids[i + 1]]
    /\ UNCHANGED <<argGpus, deviceCount, idx, pc, usage, toolFailed,
                   active_processes, procs, pending, handlers,
                   atexitRegistered, mode, frame, exitStatus, teardownRuns,
                   sigCount, crashes>>

\* lines 134-136
SkipInvalid ==
    /\ AtDevice
    /\ ~Exists(gpu_ids[idx])
    /\ idx' = idx + 1
    /\ UNCHANGED <<argGpus, deviceCount, gpu_ids, pc, usage, toolFailed,
                   active_processes, procs, pending, handlers,
                   atexitRegistered, mode, frame, exitStatus, teardownRuns,
                   sigCount, crashes>>

\* variant: a device reported in use is yielded, the supervisor's own
\* workload on it is sent terminate
ReportInUseYields ==
    /\ AtDevice
    /\ Exists(gpu_ids[idx])
    /\ InUse(usage, gpu_ids[idx])
    /\ idx' = idx + 1
    /\ procs' = IF LiveEntry(active_processes, procs, gpu_ids[idx])
                THEN [procs EXCEPT
                        ![HandleOf(active_processes, gpu_ids[idx])].term = @ + 1]
                ELSE procs
    /\ UNCHANGED <<argGpus, deviceCount, gpu_ids, pc, usage, toolFailed,
                   active_processes, pending, handlers,
                   atexitRegistered, mode, frame, exitStatus, teardownRuns,
                   sigCount, crashes>>

\* lines 138-140
ReportInUse ==
    /\ AtDevice
    /\ Exists(gpu_ids[idx])
    /\ InUse(usage, gpu_ids[idx])
    /\ idx' = idx + 1
    /\ UNCHANGED <<argGpus, deviceCount, gpu_ids, pc, usage, toolFailed,
                   active_processes, procs, pending, handlers,
                   atexitRegistered, mode, frame, exitStatus, teardownRuns,
                   sigCount, crashes>>

\* lines 143-144
AlreadyRunning ==
    /\ AtDevice
    /\ Exists(gpu_ids[idx])
    /\ ~InUse(usage, gpu_ids[idx])
    /\ LiveEntry(active_processes, procs, gpu_ids[idx])
    /\ idx' = idx + 1
    /\ UNCHANGED <<argGpus, deviceCount, gpu_ids, pc, usage, toolFailed,
                   active_processes, procs, pending, handlers,
                   atexitRegistered, mode, frame, exitStatus, teardownRuns,
                   sigCount, crashes>>

\* variant: launches on a free device whatever the registry holds
StartProcAlways ==
    /\ AtDevice
    /\ Exists(gpu_ids[idx])
    /\ ~InUse(usage, gpu_ids[idx])
    /\ procs' = Append(Cleanup(procs),
                       [dev |-> gpu_ids[idx], st |-> "alive", term |-> 0])
    /\ pending' = Len(procs) + 1
    /\ pc' = "store"
    /\ UNCHANGED <<argGpus, deviceCount, gpu_ids, idx, usage, toolFailed,
                   active_processes, handlers, atexitRegistered, mode,
                   frame, exitStatus, teardownRuns, sigCount, crashes>>

\* lines 143, 145-148: no live entry, so a workload is created and started
StartProc ==
    /\ AtDevice
    /\ Exists(gpu_ids[idx])
    /\ ~InUse(usage, gpu_ids[idx])
    /\ ~LiveEntry(active_processes, procs, gpu_ids[idx])
    /\ procs' = Append(Cleanup(procs),
                       [dev |-> gpu_ids[idx], st |-> "alive", term |-> 0])
    /\ pending' = Len(procs) + 1
    /\ pc' = "store"
    /\ UNCHANGED <<argGpus, deviceCount, gpu_ids, idx, usage, toolFailed,
                   active_processes, handlers, atexitRegistered, mode,
                   frame, exitStatus, teardownRuns, sigCount, crashes>>

\* variant: the handle is added as one more entry, beside an older entry
\* of the same device
StoreProcAppend ==
    /\ MainRuns /\ pc = "store"
    /\ active_processes' =
          Append(active_processes, [gid |-> gpu_ids[idx], h |-> pending])
    /\ pending' = NoProc
    /\ idx' = idx + 1
    /\ pc' = "loop"
    /\ UNCHANGED <<argGpus, deviceCount, gpu_ids, usage, toolFailed, procs,
                   handlers, atexitRegistered, mode, frame, exitStatus,
                   teardownRuns, sigCount, crashes>>

\* line 149
StoreProc ==
    /\ MainRuns /\ pc = "store"
    /\ active_processes' = StoreEntry(active_processes, gpu_ids[idx], pending)
    /\ pending' = NoProc
    /\ idx' = idx + 1
    /\ pc' = "loop"
    /\ UNCHANGED <<argGpus, deviceCount, gpu_ids, usage, toolFailed, procs,
                   handlers, atexitRegistered, mode, frame, exitStatus,
                   teardownRuns, sigCount, crashes>>

\* line 133 exhausted, line 152: time.sleep(5 * 60) begins
EndCycle ==
    /\ MainRuns /\ pc = "loop" /\ idx > Len(gpu_ids)
    /\ pc' = "sleep"
    /\ UNCHANGED <<argGpus, deviceCount, gpu_ids, idx, usage, toolFailed,
                   active_processes, procs, pending, handlers,
                   atexitRegistered, mode, frame, exitStatus, teardownRuns,
                   sigCount, crashes>>

\* variant: the next round of decisions reuses the snapshot of the last probe
WakeSkipsProbe ==
    /\ MainRuns /\ pc = "sleep"
    /\ pc' = "loop"
    /\ idx' = 1
    /\ UNCHANGED <<argGpus, deviceCount, gpu_ids, usage, toolFailed,
                   active_processes, procs, pending, handlers,
                   atexitRegistered, mode, frame, exitStatus, teardownRuns,
                   sigCount, crashes>>

\* line 152 returns, line 131
Wake ==
    /\ MainRuns /\ pc = "sleep"
    /\ pc' = "probe"
    /\ UNCHANGED <<argGpus, deviceCount, gpu_ids, idx, usage, toolFailed,
                   active_processes, procs, pending, handlers,
                   atexitRegistered, mode, frame, exitStatus, teardownRuns,
                   sigCount, crashes>>

\* ------------------------------------------------------------ shutdown
InShutdown == mode # "exited" /\ frame # NoFrame

\* lines 146-148: a workload is a non-daemon child of the supervisor
ChildrenAlive == \E h \in 1..Len(procs) : IsAlive(procs, h)

\* a handled signal arrives: shutdown_all is called on top of whatever runs,
\* the main frame or an activation of shutdown_all, which stays interrupted.
\* (A signal that arrives before its handler is installed has the default
\* disposition and ends the process outside the program's control.)
Signal ==
    /\ mode # "exited"
    /\ sigCount < MaxSignals
    /\ \E s \in handlers : TRUE
    /\ sigCount' = sigCount + 1
    /\ frame' = NewFrame
    /\ teardownRuns' = teardownRuns + 1
    /\ UNCHANGED <<argGpus, deviceCount, gpu_ids, pc, idx, usage, toolFailed,
                   active_processes, procs, pending, handlers,
                   atexitRegistered, mode, exitStatus, crashes>>

\* lines 102-105, one registry entry
TerminateStep ==
    /\ InShutdown
    /\ frame.pass = "term" /\ frame.i <= Len(active_processes)
    /\ LET h == active_processes[frame.i].h
       IN  procs' = IF IsAlive(procs, h)
                    THEN [procs EXCEPT ![h].term = @ + 1]
                    ELSE Polled(procs, h)
    /\ frame' = [frame EXCEPT !.i = @ + 1]
    /\ UNCHANGED <<argGpus, deviceCount, gpu_ids, pc, idx, usage, toolFailed,
                   active_processes, pending, handlers, atexitRegistered,
                   mode, exitStatus, teardownRuns, sigCount, crashes>>

\* line 102 exhausted, line 107
TerminateDone ==
    /\ InShutdown
    /\ frame.pass = "term" /\ frame.i > Len(active_processes)
    /\ frame' = [pass |-> "join", i |-> 1]
    /\ UNCHANGED <<argGpus, deviceCount, gpu_ids, pc, idx, usage, toolFailed,
                   active_processes, procs, pending, handlers,
                   atexitRegistered, mode, exitStatus, teardownRuns,
                   sigCount, crashes>>

\* variant: the join gives up at once instead of waiting for the child
JoinStepNoWait ==
    /\ InShutdown
    /\ frame.pass = "join" /\ frame.i <= Len(active_processes)
    /\ procs' = Polled(procs, active_processes[frame.i].h)
    /\ frame' = [frame EXCEPT !.i = @ + 1]
    /\ UNCHANGED <<argGpus, deviceCount, gpu_ids, pc, idx, usage, toolFailed,
                   active_processes, pending, handlers, atexitRegistered,
                   mode, exitStatus, teardownRuns, sigCount, crashes>>

\* line 108, one registry entry: join() returns once the child has exited
JoinStep ==
    /\ InShutdown
    /\ frame.pass = "join" /\ frame.i <= Len(active_processes)
    /\ LET h == active_processes[frame.i].h
       IN  /\ ~IsAlive(procs, h)
           /\ procs' = Polled(procs, h)
    /\ frame' = [frame EXCEPT !.i = @ + 1]
    /\ UNCHANGED <<argGpus, deviceCount, gpu_ids, pc, idx, usage, toolFailed,
                   active_processes, pending, handlers, atexitRegistered,
                   mode, exitStatus, teardownRuns, sigCount, crashes>>

\* line 109: SystemExit(0) unwinds every frame below.  From a signal
\* handler it ends the main frame; inside an exit hook it is discarded and
\* the status the interpreter already chose stands.  After the exit hook of
\* line 128 the interpreter runs the exit hook of the multiprocessing
\* library, which waits for the children that are still running.
ShutdownExit ==
    /\ InShutdown
    /\ frame.pass = "join" /\ frame.i > Len(active_processes)
    /\ IF mode = "run"
       THEN MainUnwinds(0)
       ELSE /\ mode' = IF mode = "finalize" /\ ChildrenAlive
                       THEN "children" ELSE "exited"
            /\ frame' = NoFrame
            /\ UNCHANGED <<pc, idx, usage, pending, exitStatus,
                           teardownRuns>>
    /\ UNCHANGED <<argGpus, deviceCount, gpu_ids, toolFailed,
                   active_processes, procs, handlers, atexitRegistered,
                   sigCount, crashes>>

\* lines 146-148: the children are not daemons, so the exit hook of the
\* multiprocessing library joins every child that is still running before
\* the process ends; the join has no timeout
ExitFunction ==
    /\ mode = "children" /\ frame = NoFrame
    /\ ~ChildrenAlive
    /\ procs' = Cleanup(procs)
    /\ mode' = "exited"
    /\ UNCHANGED <<argGpus, deviceCount, gpu_ids, pc, idx, usage, toolFailed,
                   active_processes, pending, handlers, atexitRegistered,
                   frame, exitStatus, teardownRuns, sigCount, crashes>>

\* ------------------------------------------------------------ workloads
\* gpu_worker never returns (lines 56-58): a workload ends when it has been
\* sent terminate, or when it dies on its own (crash, out of memory)
WorkerExit ==
    /\ mode # "exited"
    /\ \E h \in 1..Len(procs) :
          /\ IsAlive(procs, h)
          /\ \/ /\ procs[h].term > 0
                /\ UNCHANGED crashes
             \/ /\ procs[h].term = 0
                /\ crashes < MaxCrashes
                /\ crashes' = crashes + 1
          /\ procs' = [procs EXCEPT ![h].st = "zombie"]
    /\ UNCHANGED <<argGpus, deviceCount, gpu_ids, pc, idx, usage, toolFailed,
                   active_processes, pending, handlers, atexitRegistered,
                   mode, frame, exitStatus, teardownRuns, sigCount>>

Next ==
    \/ ParseArgs
    \/ MainEntry
    \/ InstallSigint
    \/ InstallSigterm
    \/ RegisterAtexit
    \/ Probe
    \/ ProbeFail
    \/ SkipInvalid
    \/ ReportInUse
    \/ AlreadyRunning
    \/ StartProc
    \/ StoreProc
    \/ EndCycle
    \/ Wake
    \/ Signal
    \/ TerminateStep
    \/ TerminateDone
    \/ JoinStep
    \/ ShutdownExit
    \/ ExitFunction
    \/ WorkerExit

\* the whole program, on the --gpus values of RunArgs
Spec == Init /\ [][Next]_vars

\* startup (lines 14-128) on every --gpus value of at most MaxLen characters
NextArgs ==
    \/ ParseArgs
    \/ MainEntry
    \/ InstallSigint
    \/ InstallSigterm
    \/ RegisterAtexit

SpecArgs == InitArgs /\ [][NextArgs]_vars

\* the whole program on a host where every probe that succeeds lists the
\* live workloads
NextVisible ==
    \/ ParseArgs
    \/ MainEntry
    \/ InstallSigint
    \/ InstallSigterm
    \/ RegisterAtexit
    \/ ProbeVisible
    \/ ProbeFail
    \/ SkipInvalid
    \/ ReportInUse
    \/ AlreadyRunning
    \/ StartProc
    \/ StoreProc
    \/ EndCycle
    \/ Wake
    \/ Signal
    \/ TerminateStep
    \/ TerminateDone
    \/ JoinStep
    \/ ShutdownExit
    \/ ExitFunction
    \/ WorkerExit

SpecVisible == Init /\ [][NextVisible]_vars

\* lines 101-109 and the exit hook of the library: the steps of a shutdown
ShutdownStep ==
    \/ TerminateStep
    \/ TerminateDone
    \/ JoinStep
    \/ ShutdownExit
    \/ ExitFunction

\* line 105: a workload that has been sent terminate exits (SIGTERM has its
\* default disposition in gpu_worker)
TerminatedExit ==
    /\ mode # "exited"
    /\ \E h \in 1..Len(procs) :
          /\ IsAlive(procs, h)
          /\ procs[h].term > 0
          /\ procs' = [procs EXCEPT ![h].st = "zombie"]
    /\ UNCHANGED <<argGpus, deviceCount, gpu_ids, pc, idx, usage, toolFailed,
                   active_processes, pending, handlers, atexitRegistered,
                   mode, frame, exitStatus, teardownRuns, sigCount, crashes>>

\* the whole program when the supervisor is never starved once it shuts
\* down and every workload that is sent terminate exits; a workload that
\* is not sent terminate may run for ever (lines 56-58)
SpecFair ==
    /\ Init /\ [][Next]_vars
    /\ WF_vars(ShutdownStep)
    /\ WF_vars(TerminatedExit)

TypeOK ==
    /\ pc \in {"parse", "main", "sigint", "sigterm", "atexit", "probe",
               "loop", "store", "sleep", "gone"}
    /\ mode \in {"run", "finalize", "children", "exited"}
    /\ exitStatus \in {NoStatus, 0, 1}
    /\ \A i \in 1..Len(active_processes) :
          active_processes[i].h \in 1..Len(procs)

\* ----------------------------------------------------------------------
\* Properties
\* ----------------------------------------------------------------------
Handles == 1..Len(procs)

HandlesOf(d) == {h \in Handles : procs[h].dev = d}

LiveHandlesOf(d) == {h \in HandlesOf(d) : procs[h].st = "alive"}

RegistryHandles == {active_processes[i].h : i \in 1..Len(active_processes)}

EntriesFor(reg, d) == {i \in 1..Len(reg) : reg[i].gid = d}

\* the registry holds an entry for d whose process is alive
RegLive(d) ==
    \E i \in EntriesFor(active_processes, d) :
        procs[active_processes[i].h].st = "alive"

\* the main frame is at `for gid in gpu_ids' with a device to decide on
Deciding == mode = "run" /\ frame = NoFrame /\ pc = "loop" /\ idx <= Len(gpu_ids)

\* this step is the main frame's decision for gpu_ids[idx]
Decided == pc' # pc \/ idx' # idx

\* the decision just taken (idx has moved past it) was for device d
JustDecided(d) ==
    /\ mode = "run" /\ frame = NoFrame /\ pc = "loop"
    /\ idx > 1 /\ gpu_ids[idx - 1] = d

\* C1: whatever combination of SIGINT, SIGTERM and the exit hook fires,
\* the terminate pass and join pass of shutdown_all start at most once
\* (stated for the runs in which no nvidia-smi query fails, so that the
\* exit hook fires only after a signal's own sys.exit).
C1_TeardownOnce == ~toolFailed => teardownRuns <= 1

\* C2: once shutdown has run and the supervisor has exited, every handle of
\* the registry has exited, every handle that was alive when the terminate
\* pass reached it has been sent terminate, and the exit status is 0.
C2_ShutdownCleanExit ==
    /\ frame.pass = "join" =>
             \A h \in RegistryHandles :
                 procs[h].st = "alive" => procs[h].term > 0
    /\ (mode = "exited" /\ teardownRuns > 0) =>
          /\ \A h \in RegistryHandles : procs[h].st # "alive"
          /\ exitStatus = 0

\* C3: no device ever has two live workloads launched by the supervisor,
\* and a registry entry is replaced only when its handle is not alive.
C3_OneLivePerDevice ==
    /\ [](\A d \in DeviceSet : Cardinality(LiveHandlesOf(d)) <= 1)
    /\ [][\A i \in 1..Len(active_processes) :
             active_processes'[i] # active_processes[i]
                => procs[active_processes[i].h].st # "alive"]_vars

C3_Witness ==
    \E d \in DeviceSet :
        /\ Cardinality(HandlesOf(d)) = 2
        /\ Cardinality(LiveHandlesOf(d)) = 1
        /\ \E i \in EntriesFor(active_processes, d) :
              active_processes[i].h = 2

\* C4: when the loop decides on an enumerated device that the snapshot
\* reports free and that has no live registry entry, it starts exactly one
\* workload for it, and the store that follows makes the single registry
\* entry of that device reference the new handle; after a complete cycle
\* every enumerated, managed, free device has a registry entry.
C4_FreeLaunchesOnce ==
    /\ [][(/\ Deciding /\ Decided
            /\ gpu_ids[idx] \in DeviceSet
            /\ ~usage[gpu_ids[idx]]
            /\ ~RegLive(gpu_ids[idx]))
           => /\ pc' = "store"
              /\ Len(procs') = Len(procs) + 1
              /\ procs'[Len(procs')] =
                    [dev |-> gpu_ids[idx], st |-> "alive", term |-> 0]
              /\ pending' = Len(procs')
              /\ \A h \in Handles : procs'[h].st = "alive" <=> procs[h].st = "alive"]_vars
    /\ [][(pc = "store" /\ pc' = "loop")
           => /\ Cardinality(EntriesFor(active_processes', gpu_ids[idx])) = 1
              /\ \A i \in EntriesFor(active_processes', gpu_ids[idx]) :
                    active_processes'[i].h = pending
              /\ Len(procs') = Len(procs)
              /\ idx' = idx + 1]_vars
    /\ [](pc = "sleep" =>
             \A k \in 1..Len(gpu_ids) :
                 (gpu_ids[k] \in DeviceSet /\ ~usage[gpu_ids[k]])
                    => EntriesFor(active_processes, gpu_ids[k]) # {})

C4_Witness ==
    \E d \in DeviceSet :
        /\ JustDecided(d)
        /\ ~usage[d]
        /\ \E i \in EntriesFor(active_processes, d) :
              /\ active_processes[i].h = Len(procs)
              /\ procs[Len(procs)].st = "alive"
        /\ \E h \in HandlesOf(d) : procs[h].st = "reaped"

\* C5: deciding on a free device whose registry entry is alive starts
\* nothing and leaves the registry alone; as long as the first workload of
\* a device is alive, that device has been launched on exactly once.
C5_LiveEntryNoRelaunch ==
    /\ [][(/\ Deciding /\ Decided
            /\ gpu_ids[idx] \in DeviceSet
            /\ ~usage[gpu_ids[idx]]
            /\ RegLive(gpu_ids[idx]))
           => /\ procs' = procs
              /\ active_processes' = active_processes
              /\ pc' = "loop" /\ idx' = idx + 1]_vars
    /\ [](\A d \in DeviceSet :
             \A h \in HandlesOf(d) :
                 ((\A g \in HandlesOf(d) : h <= g) /\ procs[h].st = "alive")
                    => Cardinality(HandlesOf(d)) = 1)

C5_Witness ==
    \E d \in DeviceSet :
        /\ JustDecided(d)
        /\ ~usage[d]
        /\ RegLive(d)
        /\ Cardinality(HandlesOf(d)) = 1
        /\ procs[Len(procs)].dev # d

\* C6: deciding on a device the snapshot reports in use starts nothing,
\* terminates nothing and leaves the registry alone, whatever it held.
C6_InUseNoAction ==
    [][(/\ Deciding /\ Decided
        /\ gpu_ids[idx] \in DOMAIN usage
        /\ usage[gpu_ids[idx]])
       => /\ procs' = procs
          /\ active_processes' = active_processes
          /\ pending' = pending
          /\ pc' = "loop" /\ idx' = idx + 1]_vars

C6_Witness ==
    \E d \in DeviceSet :
        /\ JustDecided(d)
        /\ usage[d]
        /\ \E i \in EntriesFor(active_processes, d) :
              /\ procs[active_processes[i].h].st = "alive"
              /\ procs[active_processes[i].h].term = 0

\* C7: an id of the managed list that is not an enumerated device is never
\* launched on and never gets a registry entry; deciding on it only moves
\* the loop on, and the supervisor keeps cycling even when every managed
\* id is invalid.
C7_InvalidIdSkipped ==
    /\ [](/\ \A i \in 1..Len(active_processes) :
               active_processes[i].gid \in 0..(deviceCount - 1)
          /\ \A h \in Handles : procs[h].dev \in 0..(deviceCount - 1))
    /\ [][(/\ Deciding /\ Decided
            /\ ~(gpu_ids[idx] \in 0..(deviceCount - 1)))
           => /\ procs' = procs
              /\ active_processes' = active_processes
              /\ pending' = pending
              /\ mode' = "run" /\ exitStatus' = NoStatus
              /\ pc' = "loop" /\ idx' = idx + 1]_vars

C7_Witness ==
    /\ gpu_ids # <<>>
    /\ \A k \in 1..Len(gpu_ids) : ~(gpu_ids[k] \in 0..(deviceCount - 1))
    /\ \E k \in 1..Len(gpu_ids) : gpu_ids[k] < 0
    /\ deviceCount > 0
    /\ mode = "run" /\ frame = NoFrame /\ pc = "sleep"
    /\ procs = <<>> /\ active_processes = <<>>

\* C8: a probe in which an nvidia-smi query fails still hands the loop a
\* snapshot, with the affected device not in use, and the supervisor goes
\* on to decide on its devices.
C8_ProbeFailureContained ==
    [][(pc = "probe" /\ toolFailed')
       => /\ pc' = "loop"
          /\ mode' = "run" /\ exitStatus' = NoStatus
          /\ DOMAIN usage' = DeviceSet
          /\ (deviceCount > 0 => \E d \in DeviceSet : ~usage'[d])]_vars

\* the elements of a non-empty --gpus value, and those Python's int()
\* rejects: the empty string, a lone sign, a letter, a sign after the start
Elements(a) == {Split(a)[i] : i \in 1..Len(Split(a))}

NotAnInteger(t) ==
    \/ t = <<>>
    \/ t = <<"-">>
    \/ \E i \in 1..Len(t) : t[i] = "x"
    \/ \E i \in 2..Len(t) : t[i] = "-"

NothingStarted ==
    /\ pc \in {"parse", "main", "gone"}
    /\ procs = <<>> /\ active_processes = <<>>
    /\ handlers = {} /\ ~atexitRegistered
    /\ teardownRuns = 0
    /\ exitStatus \in {NoStatus, 1}
    /\ pc = "gone" <=> (mode = "exited" /\ exitStatus = 1)

\* C9: a non-empty --gpus value with an element that is not an integer
\* makes the program exit with status 1 before the loop: nothing is
\* launched and shutdown_all is neither installed nor run.
C9_BadListExits ==
    (argGpus # None /\ argGpus # <<>>
        /\ \E t \in Elements(argGpus) : NotAnInteger(t))
       => /\ NothingStarted
          /\ pc # "main"

C9_Witness ==
    /\ argGpus = <<"0", ",", "x">>
    /\ deviceCount > 0
    /\ mode = "exited" /\ exitStatus = 1
    /\ procs = <<>> /\ handlers = {}

\* C10: with zero enumerated devices and no --gpus, or with an explicitly
\* empty --gpus value, the program exits with status 1 and launches
\* nothing; an empty value never selects the enumerated devices.
C10_NoDevicesExits ==
    ((argGpus = None /\ deviceCount = 0) \/ argGpus = <<>>)
       => /\ NothingStarted
          /\ gpu_ids = <<>>


\* C11: a termination signal that arrives while shutdown_all is already
\* running (in its terminate pass or waiting in a join) is a no-op: no new
\* terminate pass starts, so no handle is ever sent terminate a second time.
C11_NoSecondTerminate == \A h \in Handles : procs[h].term <= 1

\* C12: a signal takes effect only between steps of the loop, never between
\* the start of a workload (line 148) and the store of its handle (line
\* 149): whenever shutdown_all runs, every started workload that is still
\* alive is in the registry, and so is covered by its terminate and join
\* passes.
C12_TeardownCoversStarted ==
    frame # NoFrame =>
        \A h \in Handles : procs[h].st = "alive" => h \in RegistryHandles

\* C13: once the arguments are parsed, an absent --gpus makes the managed
\* list the full enumerated list 0 .. device_count - 1, and after startup no
\* step of a cycle, of a launch or of shutdown changes the managed list.
C13_ManagedSetFixed ==
    /\ [](pc # "parse" /\ argGpus = None
             => gpu_ids = [i \in 1..deviceCount |-> i - 1])
    /\ [][pc # "parse" => gpu_ids' = gpu_ids]_vars

\* two enumerated devices, no --gpus: both are managed, both have been
\* launched on, and shutdown has run to the end
C13_Witness ==
    /\ argGpus = None /\ deviceCount = 2
    /\ gpu_ids = <<0, 1>>
    /\ Len(active_processes) = 2
    /\ mode = "exited" /\ teardownRuns > 0

\* the positions of the managed list the current cycle has reached
Visited == 1..(IF idx <= Len(gpu_ids) THEN idx ELSE Len(gpu_ids))

\* C14 as stated: within a cycle the enumerated ids are decided on in
\* ascending order whatever list the user supplied.
C14_AscendingOrder ==
    (mode = "run" /\ pc \in {"loop", "store"}) =>
        \A j, k \in Visited :
            (j < k /\ gpu_ids[j] \in DeviceSet /\ gpu_ids[k] \in DeviceSet)
                => gpu_ids[j] <= gpu_ids[k]

\* C14, amended: within a cycle the ids are decided on in the order of the
\* managed list, one position after the other (ascending when --gpus is
\* absent); the usage snapshot is taken once per cycle, by the probe that
\* opens the cycle, and is the one every decision of that cycle reads; the
\* next probe starts only after the last decision and the sleep.
C14_ListOrderOneSnapshot ==
    /\ [][(idx' # idx /\ pc' # "gone")
             => \/ pc = "probe" /\ idx' = 1
                \/ pc \in {"loop", "store"} /\ idx <= Len(gpu_ids)
                      /\ idx' = idx + 1]_vars
    /\ [][(usage' # usage /\ pc' # "gone")
             => pc = "probe" /\ pc' = "loop" /\ idx' = 1]_vars
    /\ [][pc' = "probe" => pc \in {"atexit", "sleep", "probe"}]_vars
    /\ [][pc' = "sleep" => pc = "sleep" \/ (pc = "loop" /\ idx > Len(gpu_ids))]_vars
    /\ [](argGpus = None /\ pc # "parse"
             => \A j, k \in 1..Len(gpu_ids) : j < k => gpu_ids[j] < gpu_ids[k])

\* --gpus 1,0 on two free devices: device 1 was launched on before device 0
C14_Witness ==
    /\ gpu_ids = <<1, 0>> /\ deviceCount = 2
    /\ mode = "run" /\ pc = "loop" /\ idx = 3
    /\ Len(procs) = 2 /\ procs[1].dev = 1 /\ procs[2].dev = 0
    /\ active_processes = <<[gid |-> 1, h |-> 1], [gid |-> 0, h |-> 2]>>

\* the current cycle has not yet decided on device d
NotYetDecided(d) == \A k \in 1..(idx - 1) : gpu_ids[k] # d

\* C15: on a host where the probe lists the live workloads, a device whose
\* workload was launched in an earlier cycle and is still alive is
\* classified as in use by every later cycle: when the loop reaches it the
\* snapshot reports it in use, so that the in-use branch is the one taken,
\* and the decision starts no workload and leaves the registry as it is.
C15_LaunchedStaysInUse ==
    /\ [](\A d \in DeviceSet :
             (Deciding /\ gpu_ids[idx] = d /\ NotYetDecided(d)
                /\ LiveHandlesOf(d) # {}) => usage[d])
    /\ [][(/\ Deciding /\ Decided
            /\ gpu_ids[idx] \in DeviceSet
            /\ NotYetDecided(gpu_ids[idx])
            /\ LiveHandlesOf(gpu_ids[idx]) # {})
           => /\ pc' = "loop" /\ idx' = idx + 1
              /\ procs' = procs
              /\ pending' = pending
              /\ active_processes' = active_processes]_vars

\* --gpus 0: the workload on device 0 is still the first and only one, and
\* a later cycle has just decided on device 0 with a snapshot that reports
\* it in use
C15_Witness ==
    /\ gpu_ids = <<0>> /\ deviceCount = 1
    /\ JustDecided(0) /\ usage[0]
    /\ procs = <<[dev |-> 0, st |-> "alive", term |-> 0]>>
    /\ active_processes = <<[gid |-> 0, h |-> 1]>>

\* C16: a run of shutdown_all has three phases in this order.  When its
\* join pass begins, and all through it, every registry handle that is
\* still alive has been sent terminate; the join pass starts only when the
\* terminate pass has gone through the whole registry; the join pass goes
\* through every entry, whether or not it was alive at the terminate pass,
\* and passes an entry only when its process has exited and is reaped; and
\* shutdown_all is left, by sys.exit, only after the last join has returned.
C16_ThreePhases ==
    /\ [](frame.pass = "join" =>
             /\ \A h \in RegistryHandles :
                   procs[h].st = "alive" => procs[h].term > 0
             /\ \A k \in 1..(frame.i - 1) :
                   procs[active_processes[k].h].st = "reaped")
    /\ [][(frame.pass = "term" /\ frame'.pass = "join")
             => (frame.i > Len(active_processes) /\ frame'.i = 1)]_vars
    /\ [][(frame.pass = "join" /\ frame'.pass = "join" /\ frame'.i # frame.i)
             => (frame.i <= Len(active_processes) /\ frame'.i = frame.i + 1)]_vars
    /\ [][(frame # NoFrame /\ frame' = NoFrame)
             => /\ frame.pass = "join" /\ frame.i > Len(active_processes)
                /\ \A h \in RegistryHandles : procs[h].st = "reaped"]_vars

\* shutdown after a signal has run to the end with status 0 over a registry
\* of two entries: one was alive at the terminate pass and was sent
\* terminate, the other had died before and was only joined
C16_Witness ==
    /\ mode = "exited" /\ exitStatus = 0 /\ teardownRuns > 0
    /\ Len(active_processes) = 2
    /\ \E h, g \in RegistryHandles :
          /\ procs[h].term = 1 /\ procs[h].st = "reaped"
          /\ procs[g].term = 0 /\ procs[g].st = "reaped"

\* C17: the supervisor goes from running to shutting down to terminated.
\* Once shutdown_all has been entered, and provided every workload that is
\* sent terminate exits, the supervisor process eventually ends.
C17_ShutdownTerminates == (teardownRuns > 0) ~> (mode = "exited")

\* C18 as stated: while the loop runs, the registry holds no entry whose
\* process has died and has already been reaped.
C18_NoReapedEntry ==
    (mode = "run" /\ frame = NoFrame) =>
        \A h \in RegistryHandles : procs[h].st # "reaped"

\* C18, amended: a device has at most one entry; while the main frame
\* exists the entry references the last workload that was launched and
\* stored for the device (a newer one can only be the one just started and
\* not yet stored), whether that process is alive, dead and not yet reaped,
\* or dead and reaped; an entry is never removed, and its handle changes
\* only at the store that follows a new launch on its device.
C18_EntryIsLastStored ==
    /\ [](\A i \in 1..Len(active_processes) :
             LET e == active_processes[i]
             IN  /\ procs[e.h].dev = e.gid
                 /\ EntriesFor(active_processes, e.gid) = {i}
                 /\ mode = "run" =>
                       \A g \in HandlesOf(e.gid) : g > e.h => g = pending)
    /\ [][\A i \in 1..Len(active_processes) :
             /\ i <= Len(active_processes')
             /\ active_processes'[i].gid = active_processes[i].gid
             /\ active_processes'[i].h # active_processes[i].h
                   => /\ pc = "store" /\ pc' = "loop"
                      /\ gpu_ids[idx] = active_processes[i].gid
                      /\ active_processes'[i].h = pending]_vars

\* the loop sleeps between two cycles while the registry holds an entry
\* whose process has died and has been reaped
C18_Witness ==
    /\ mode = "run" /\ frame = NoFrame /\ pc = "sleep"
    /\ \E h \in RegistryHandles : procs[h].st = "reaped"

\* C19: once shutdown_all has been entered, from a signal or from the exit
\* hook, no workload is started and the registry is not written any more,
\* and the main frame takes no further step of the loop (it can only be
\* unwound), at whatever point of the loop the signal arrived.
C19_NoLaunchAfterShutdown ==
    [][teardownRuns > 0
          => /\ Len(procs') = Len(procs)
             /\ active_processes' = active_processes
             /\ pending' \in {pending, NoProc}
             /\ pc' \in {pc, "gone"}
             /\ idx' \in {idx, 1}]_vars

\* a signal arrived when the loop was about to launch on a free device that
\* has no workload; shutdown_all is in its join pass and nothing has been
\* launched
C19_Witness ==
    /\ mode = "run" /\ frame.pass = "join"
    /\ pc = "loop" /\ idx <= Len(gpu_ids)
    /\ gpu_ids[idx] \in DeviceSet
    /\ ~usage[gpu_ids[idx]]
    /\ HandlesOf(gpu_ids[idx]) = {}
    /\ Len(active_processes) > 0

\* C20: when the managed list names an enumerated device a second time, the
\* decision at the second occurrence finds the workload of that device in
\* the registry (at a decision every live workload is registered) and, as
\* long as it is alive, starts nothing and leaves the registry as it is.
C20_DuplicateIdOneLaunch ==
    /\ [](Deciding =>
             \A h \in Handles : procs[h].st = "alive" => h \in RegistryHandles)
    /\ [][(/\ Deciding /\ Decided
            /\ gpu_ids[idx] \in DeviceSet
            /\ ~NotYetDecided(gpu_ids[idx])
            /\ LiveHandlesOf(gpu_ids[idx]) # {})
           => /\ pc' = "loop" /\ idx' = idx + 1
              /\ procs' = procs
              /\ pending' = NoProc
              /\ active_processes' = active_processes]_vars

\* --gpus 0,0 with device 0 reported free: both occurrences have been
\* decided on and device 0 has one workload, alive and registered
C20_Witness ==
    /\ gpu_ids = <<0, 0>> /\ deviceCount >= 1
    /\ mode = "run" /\ frame = NoFrame /\ pc = "loop" /\ idx = 3
    /\ ~usage[0]
    /\ procs = <<[dev |-> 0, st |-> "alive", term |-> 0]>>
    /\ active_processes = <<[gid |-> 0, h |-> 1]>>
    /\ crashes = 0

=============================================================================
